---- MODULE Spec2Model ----
(***************************************************************************)
(* Deletion mutator of kevlar's mutsim notebook (del.cpp).                 *)
(*                                                                         *)
(* MutatorDel::process slides a deletion point i over a sequence, asks the *)
(* sampling policy whether to skip it, and for every retained point builds *)
(* the (2k-1)-base junction, constructs a Deletion (which folds the k      *)
(* junction k-mers into the two histograms of the Mutator), advances the   *)
(* logger and adds k to the returned tally.                                *)
(*                                                                         *)
(* Strings are sequences of one-character strings; C++ positions are       *)
(* 0-based, TLA+ sequences 1-based.  ulong/uint values stay far below      *)
(* their width for the bounded inputs, so plain integers are used.         *)
(***************************************************************************)
EXTENDS Integers, Sequences, FiniteSets, Bags, TLC

\* ------------------------------------------------------------------ bounds
MaxK == 2
MaxD == 2
MaxLimit == 2
MaxLen == 4
MaxCalls == 2

Alphabet == {"A", "C"}

Min(a, b) == IF a <= b THEN a ELSE b

\* All input sequences of length 0..MaxLen.
Seqs == UNION {[1..n -> Alphabet] : n \in 0..MaxLen}

\* A counting table is given by the reads that were consumed into it.
Tables == {<< >>, <<"A", "A", "C">>}

NoDel == [sequence |-> << >>, abunds |-> << >>]
NoRet == -1
NoBlock == << >>

VARIABLES
    k, delsize, limit,          \* constructor arguments (Mutator::k, delsize, Mutator::limit)
    counttable,                 \* the Counttable handed to process
    delcount,                   \* MutatorDel::delcount
    abund_hist, unique_hist,    \* Mutator::abund_hist, Mutator::unique_hist
    counter,                    \* logger.counter
    stream,                     \* report block the current event wrote to logger.stream
    pc,                         \* position inside process ("idle" outside)
    sequence, i, kmercount,     \* argument and locals of process
    delseq, del, doprint,       \* locals of the loop body
    ret,                        \* value returned by the last finished call
    ncalls,                     \* process calls started on this Mutator
    pre,                        \* Mutator/logger state when the current call began
    consulted,                  \* positions i at which skip_nucl() ran in this call
    nretained,                  \* skip_nucl() calls that returned false, all calls
    stopped,                    \* the limit check broke out of the loop in this call
    phase,                      \* accumulation scenario: which Mutator is running
    seqB,                       \* accumulation scenario: the second sequence
    tape,                       \* accumulation scenario: skip decisions taken on seqB
    resAB, resA, resB           \* accumulation scenario: histograms of the runs

cfgVars == <<k, delsize, limit, counttable>>
mutVars == <<delcount, abund_hist, unique_hist>>
logVars == <<counter, stream>>
frameVars == <<sequence, i, kmercount, delseq, del, doprint>>
ghostVars == <<ncalls, pre, consulted, nretained, stopped>>
accVars == <<phase, seqB, tape, resAB, resA, resB>>
vars == <<cfgVars, mutVars, logVars, pc, frameVars, ret, ghostVars, accVars>>

\* ------------------------------------------------------- collaborators
\* Histogram::increment(value): one more occurrence in bucket value.
HistIncrement(hist, value) == hist (+) SetToBag({value})

\* Logger::increment(): the progress counter after one more logged unit.
LoggerAdvance(c) == c + 1

\* Counttable::get_kmers: the Len-k+1 overlapping k-mers, left to right.
GetKmers(s) == [j \in 1..(IF Len(s) >= k THEN Len(s) - k + 1 ELSE 0) |-> SubSeq(s, j, j + k - 1)]

\* Counttable::get_count: occurrences of kmer among the consumed reads.
GetCount(kmer) ==
    Cardinality({j \in 1..Len(counttable) :
                    /\ j + Len(kmer) - 1 <= Len(counttable)
                    /\ SubSeq(counttable, j, j + Len(kmer) - 1) = kmer})

\* std::string::substr(pos, n) for pos <= size(): clipped at the end of s.
Substr(s, pos, n) == SubSeq(s, pos + 1, Min(pos + n, Len(s)))

\* ------------------------------------------------------- MutatorDel::process
\* Variants of the loop condition: one position too many, the last position
\* missed, the deletion size forgotten.
LoopCond_past(s, pos) == pos + k + delsize <= Len(s) + 1
LoopCond_strict(s, pos) == pos + k + delsize < Len(s)
LoopCond_nodel(s, pos) == pos + k <= Len(s)

\* Loop condition of the for statement.
LoopCond(s, pos) == pos + k + delsize <= Len(s)

\* Variants of the limit test: limit 0 treated as a limit, one event late.
LimitReached_zero == delcount > limit
LimitReached_late == limit > 0 /\ delcount > limit + 1

\* Early termination test at the top of the loop body.
LimitReached == limit > 0 /\ delcount > limit

\* Variants of the flank starts: left flank ending at pos itself, right
\* flank starting one base later.
min1_inclusive(pos) == pos - k + 2
min2_after(pos) == pos + delsize + 1

min1(pos) == pos - k + 1
length1 == k - 1
min2(pos) == pos + delsize
length2 == k

\* The junction string of deletion point pos.
Junction(s, pos) == Substr(s, min1(pos), length1) \o Substr(s, min2(pos), length2)

\* Variants of the tally: one k-mer per event too few, the junction length.
TallyStep_less == k - 1
TallyStep_junction == (2 * k) - 1

\* Value the tally grows by per retained event.
TallyStep == k

\* ------------------------------------------- MutatorDel::Deletion::Deletion
\* Variant of the abundance vector: the k-mers taken right to left.
Abunds_reversed(kmers) == [j \in 1..Len(kmers) |-> GetCount(kmers[Len(kmers) + 1 - j])]

Abunds(kmers) == [j \in 1..Len(kmers) |-> GetCount(kmers[j])]

\* Variant of the abundance fold: the last k-mer of the event is not counted.
RECURSIVE FoldAbund_short(_, _, _)
FoldAbund_short(hist, abunds, j) ==
    IF j >= Len(abunds) THEN hist
    ELSE FoldAbund_short(HistIncrement(hist, abunds[j]), abunds, j + 1)

RECURSIVE FoldAbund(_, _, _)
FoldAbund(hist, abunds, j) ==
    IF j > Len(abunds) THEN hist
    ELSE FoldAbund(HistIncrement(hist, abunds[j]), abunds, j + 1)

\* Variant of the unique tally: every k-mer counted as unique.
UniqueCount_all(abunds) == Len(abunds)

UniqueCount(abunds) == Cardinality({j \in 1..Len(abunds) : abunds[j] = 0})

\* ---------------------------------------------- MutatorDel::Deletion::print
Spaces(n) == [j \in 1..n |-> " "]

\* Variant of the abundance line: a space before every value, the first too.
AbundLine_leading(abunds, n) ==
    [j \in 1..(2 * n) |-> IF j % 2 = 1 THEN " " ELSE ToString(abunds[j \div 2])]

RECURSIVE AbundLine(_, _)
AbundLine(abunds, n) ==
    IF n = 0 THEN << >>
    ELSE AbundLine(abunds, n - 1) \o (IF n - 1 > 0 THEN <<" ">> ELSE << >>)
                                  \o <<ToString(abunds[n])>>

print(d) ==
    << <<">">> \o d.sequence,
       Spaces(k) \o <<"|">>,
       AbundLine(d.abunds, k) >>

\* Tenths of a megabase shown by setprecision(1) for logger.counter / 1e6.
MbTenths(c) == (c + 50000) \div 100000

\* ------------------------------------------------------------ construction
NoRes == [abund_hist |-> EmptyBag, unique_hist |-> EmptyBag, stopped |-> FALSE]
Snapshot == [delcount |-> delcount, abund_hist |-> abund_hist,
             unique_hist |-> unique_hist, counter |-> counter]

\* MutatorDel::MutatorDel: delcount(0); the Mutator base starts both
\* histograms empty.  The arguments are the fields being initialised.
MutatorDel(dc, ah, uh) ==
    /\ dc = 0
    /\ ah = EmptyBag
    /\ uh = EmptyBag

\* A logger that has logged nothing yet.
Logger(c, st) ==
    /\ c = 0
    /\ st = NoBlock

Config ==
    /\ k \in 1..MaxK
    /\ delsize \in 1..MaxD
    /\ limit \in 0..MaxLimit
    /\ counttable \in Tables

Init ==
    /\ Config
    /\ MutatorDel(delcount, abund_hist, unique_hist)
    /\ Logger(counter, stream)
    /\ pc = "idle"
    /\ sequence = << >> /\ i = 0 /\ kmercount = 0
    /\ delseq = << >> /\ del = NoDel /\ doprint = FALSE
    /\ ret = NoRet
    /\ ncalls = 0 /\ pre = Snapshot /\ consulted = << >>
    /\ nretained = 0 /\ stopped = FALSE
    /\ phase = "free"
    /\ seqB = << >>
    /\ tape = << >>
    /\ resAB = NoRes /\ resA = NoRes /\ resB = NoRes

\* ------------------------------------------------------------------ steps
\* process(sequence, counttable) is entered: kmercount = 0, i = k - 1.
Call(s) ==
    /\ pc = "idle"
    /\ ncalls < MaxCalls
    /\ sequence' = s
    /\ kmercount' = 0
    /\ i' = k - 1
    /\ pc' = "for"
    /\ ret' = NoRet
    /\ ncalls' = ncalls + 1
    /\ pre' = Snapshot
    /\ consulted' = << >>
    /\ stopped' = FALSE
    /\ UNCHANGED <<cfgVars, mutVars, logVars, delseq, del, doprint, nretained>>

\* for (...; i + k + delsize <= sequence.length(); ...)
ForCond ==
    /\ pc = "for"
    /\ pc' = IF LoopCond(sequence, i) THEN "limit" ELSE "return"
    /\ UNCHANGED <<cfgVars, mutVars, logVars, frameVars, ret, ghostVars>>

\* Variant of the limit test: the test is left out.
LimitCheck_absent ==
    /\ pc = "limit"
    /\ pc' = "skip"
    /\ stopped' = FALSE
    /\ UNCHANGED <<cfgVars, mutVars, logVars, frameVars, ret,
                   ncalls, pre, consulted, nretained>>

\* if (limit > 0 && delcount > limit) break;
LimitCheck ==
    /\ pc = "limit"
    /\ pc' = IF LimitReached THEN "return" ELSE "skip"
    /\ stopped' = LimitReached
    /\ UNCHANGED <<cfgVars, mutVars, logVars, frameVars, ret,
                   ncalls, pre, consulted, nretained>>

\* Variant of the sampling step: a skipped position is tried again.
SkipNucl_again(skip) ==
    /\ pc = "skip"
    /\ consulted' = Append(consulted, i)
    /\ IF skip
       THEN /\ pc' = "for"
            /\ UNCHANGED nretained
       ELSE /\ pc' = "delcount"
            /\ nretained' = nretained + 1
    /\ UNCHANGED <<cfgVars, mutVars, logVars, sequence, i, kmercount, delseq, del,
                   doprint, ret, ncalls, pre, stopped>>

\* Variant of the sampling step: a skipped position is counted all the same.
SkipNucl_counted(skip) ==
    /\ pc = "skip"
    /\ consulted' = Append(consulted, i)
    /\ IF skip
       THEN /\ i' = i + 1
            /\ pc' = "for"
            /\ delcount' = delcount + 1
            /\ UNCHANGED nretained
       ELSE /\ pc' = "delcount"
            /\ nretained' = nretained + 1
            /\ UNCHANGED <<i, delcount>>
    /\ UNCHANGED <<cfgVars, abund_hist, unique_hist, logVars, sequence, kmercount,
                   delseq, del, doprint, ret, ncalls, pre, stopped>>

\* if (skip_nucl()) continue;   skip is the policy's answer.
SkipNucl(skip) ==
    /\ pc = "skip"
    /\ consulted' = Append(consulted, i)
    /\ IF skip
       THEN /\ i' = i + 1
            /\ pc' = "for"
            /\ UNCHANGED nretained
       ELSE /\ pc' = "delcount"
            /\ nretained' = nretained + 1
            /\ UNCHANGED i
    /\ UNCHANGED <<cfgVars, mutVars, logVars, sequence, kmercount, delseq, del,
                   doprint, ret, ncalls, pre, stopped>>

\* Variant of the counter update: the counter is not advanced.
CountDeletion_lost ==
    /\ pc = "delcount"
    /\ pc' = "junction"
    /\ UNCHANGED <<cfgVars, mutVars, logVars, frameVars, ret, ghostVars>>

\* delcount++;
CountDeletion ==
    /\ pc = "delcount"
    /\ delcount' = delcount + 1
    /\ pc' = "junction"
    /\ UNCHANGED <<cfgVars, abund_hist, unique_hist, logVars, frameVars, ret, ghostVars>>

\* delseq = substr(min1, length1) + substr(min2, length2); assert(size == 2k-1).
\* substr throws std::out_of_range when its position is beyond the end.
BuildJunction ==
    /\ pc = "junction"
    /\ IF min1(i) < 0 \/ min1(i) > Len(sequence) \/ min2(i) > Len(sequence)
       THEN /\ pc' = "out_of_range"
            /\ UNCHANGED delseq
       ELSE /\ delseq' = Junction(sequence, i)
            /\ pc' = IF Len(delseq') = (2 * k) - 1 THEN "deletion" ELSE "assert_delseq"
    /\ UNCHANGED <<cfgVars, mutVars, logVars, sequence, i, kmercount, del, doprint,
                   ret, ghostVars>>

\* Deletion del(delseq, *this, counttable);
NewDeletion ==
    /\ pc = "deletion"
    /\ LET kmers == GetKmers(delseq)
           abunds == Abunds(kmers)
       IN  IF Len(kmers) # k
           THEN /\ pc' = "assert_kmers"
                /\ UNCHANGED <<del, abund_hist, unique_hist>>
           ELSE /\ del' = [sequence |-> delseq, abunds |-> abunds]
                /\ abund_hist' = FoldAbund(abund_hist, abunds, 1)
                /\ unique_hist' = HistIncrement(unique_hist, UniqueCount(abunds))
                /\ pc' = "logger"
    /\ UNCHANGED <<cfgVars, delcount, logVars, sequence, i, kmercount, delseq, doprint,
                   ret, ghostVars>>

\* bool doprint = logger.increment();   checkpoint is the logger's answer.
LoggerIncrement(checkpoint) ==
    /\ pc = "logger"
    /\ counter' = LoggerAdvance(counter)
    /\ doprint' = checkpoint
    /\ pc' = IF checkpoint THEN "report" ELSE "tally"
    /\ UNCHANGED <<cfgVars, mutVars, stream, sequence, i, kmercount, delseq, del,
                   ret, ghostVars>>

\* Variant of the report: the histograms as they were when the call began.
Report_stale ==
    /\ pc = "report"
    /\ stream' = [mb |-> MbTenths(counter), diagram |-> print(del),
                  abund_hist |-> pre.abund_hist, unique_hist |-> pre.unique_hist]
    /\ pc' = "tally"
    /\ UNCHANGED <<cfgVars, mutVars, counter, frameVars, ret, ghostVars>>

\* if (doprint) { ... del.print(logger.stream); ... << abund_hist << unique_hist }
Report ==
    /\ pc = "report"
    /\ stream' = [mb |-> MbTenths(counter), diagram |-> print(del),
                  abund_hist |-> abund_hist, unique_hist |-> unique_hist]
    /\ pc' = "tally"
    /\ UNCHANGED <<cfgVars, mutVars, counter, frameVars, ret, ghostVars>>

\* kmercount += k;  end of the body: del is destroyed, i++.  The block the
\* event wrote has left the program; the sink is not read back.
Tally ==
    /\ pc = "tally"
    /\ kmercount' = kmercount + TallyStep
    /\ i' = i + 1
    /\ delseq' = << >>
    /\ del' = NoDel
    /\ doprint' = FALSE
    /\ stream' = NoBlock
    /\ pc' = "for"
    /\ UNCHANGED <<cfgVars, mutVars, counter, sequence, ret, ghostVars>>

\* return kmercount;   the locals i and kmercount end with the call, the
\* caller's string stays.
Return ==
    /\ pc = "return"
    /\ ret' = kmercount
    /\ pc' = "idle"
    /\ i' = 0
    /\ kmercount' = 0
    /\ UNCHANGED <<cfgVars, mutVars, logVars, sequence, delseq, del, doprint, ghostVars>>

\* ---------------------------------------------------------- specification
Process == \E s \in Seqs : Call(s) /\ UNCHANGED accVars
Loop == (ForCond \/ LimitCheck) /\ UNCHANGED accVars
Sample == \E skip \in BOOLEAN : SkipNucl(skip) /\ UNCHANGED accVars
Event == (CountDeletion \/ BuildJunction \/ NewDeletion) /\ UNCHANGED accVars
Log == \E checkpoint \in BOOLEAN : LoggerIncrement(checkpoint) /\ UNCHANGED accVars
Emit == Report /\ UNCHANGED accVars
Advance == Tally /\ UNCHANGED accVars
Finish == Return /\ UNCHANGED accVars

Next == Process \/ Loop \/ Sample \/ Event \/ Log \/ Emit \/ Advance \/ Finish

Spec == Init /\ [][Next]_vars

\* ------------------------------------------- accumulation over two sequences
\* One Mutator processes A and then B.  Its first call, observed when B is
\* handed in, is the single-call run on A of a fresh Mutator.  A second
\* Mutator with the same configuration then processes B alone, the sampling
\* policy repeating at every position the decision it took there before.
Result == [abund_hist |-> abund_hist, unique_hist |-> unique_hist, stopped |-> stopped]

InitAcc ==
    /\ Config
    /\ MutatorDel(delcount, abund_hist, unique_hist)
    /\ Logger(counter, stream)
    /\ pc = "idle"
    /\ sequence = << >> /\ i = 0 /\ kmercount = 0
    /\ delseq = << >> /\ del = NoDel /\ doprint = FALSE
    /\ ret = NoRet
    /\ ncalls = 0 /\ pre = Snapshot /\ consulted = << >>
    /\ nretained = 0 /\ stopped = FALSE
    /\ phase = "AB"
    /\ seqB = << >>
    /\ tape = << >>
    /\ resAB = NoRes /\ resA = NoRes /\ resB = NoRes

AccProcess ==
    \/ /\ phase = "AB" /\ ncalls = 0
       /\ \E s \in Seqs : Call(s)
       /\ UNCHANGED accVars
    \/ /\ phase = "AB" /\ ncalls = 1
       /\ \E s \in Seqs : Call(s) /\ seqB' = s
       /\ resA' = Result
       /\ UNCHANGED <<phase, tape, resAB, resB>>
    \/ /\ phase = "B" /\ ncalls = 0
       /\ Call(seqB)
       /\ UNCHANGED accVars

AccSample ==
    \/ /\ phase = "AB"
       /\ \E skip \in BOOLEAN :
             /\ SkipNucl(skip)
             /\ tape' = IF ncalls = 2 THEN (i :> skip) @@ tape ELSE tape
       /\ UNCHANGED <<phase, seqB, resAB, resA, resB>>
    \/ /\ phase = "B"
       /\ \E skip \in BOOLEAN :
             /\ i \in DOMAIN tape => skip = tape[i]
             /\ SkipNucl(skip)
       /\ UNCHANGED accVars

\* The run of one Mutator is over: keep its histograms; after the first run
\* construct the second Mutator (and a logger of its own).
AccNew ==
    /\ pc = "idle"
    /\ \/ /\ phase = "AB" /\ ncalls = 2
          /\ resAB' = Result
          /\ phase' = "B"
          /\ UNCHANGED resB
       \/ /\ phase = "B" /\ ncalls = 1
          /\ resB' = Result
          /\ phase' = "done"
          /\ UNCHANGED resAB
    /\ MutatorDel(delcount', abund_hist', unique_hist')
    /\ Logger(counter', stream')
    /\ sequence' = << >>
    /\ ncalls' = 0 /\ pre' = Snapshot' /\ consulted' = << >>
    /\ nretained' = 0 /\ stopped' = FALSE
    /\ UNCHANGED <<cfgVars, pc, i, kmercount, delseq, del, doprint, ret, seqB, tape, resA>>

NextAcc == AccProcess \/ Loop \/ AccSample \/ Event \/ Log \/ Emit \/ Advance \/ Finish \/ AccNew

SpecAcc == InitAcc /\ [][NextAcc]_vars

\* ------------------------------------------------------------ properties
Failed == pc \in {"out_of_range", "assert_delseq", "assert_kmers"}
Returned == pc = "idle" /\ ncalls > 0
Short == Len(sequence) < 2 * k + delsize - 1
\* Last admissible deletion point of the current sequence.
LastPoint == Len(sequence) - k - delsize
\* The sequence 0-based position p of the current sequence.
At(p) == sequence[p + 1]

\* C1: every junction built by process has length exactly 2k-1: neither
\* substr call throws or is clipped, and the length assertion never fails.
C1_JunctionLength ==
    /\ pc \notin {"out_of_range", "assert_delseq"}
    /\ pc = "junction" =>
          /\ i - k + 1 >= 0
          /\ (i - k + 1) + (k - 1) <= Len(sequence)
          /\ (i + delsize) + k <= Len(sequence)
    /\ pc \in {"deletion", "logger", "report", "tally"} => Len(delseq) = 2 * k - 1

C1_Witness ==
    /\ pc = "deletion" /\ k = 2 /\ Len(delseq) = 3
    /\ i = LastPoint

\* C2 as stated: the left flank is the k-1 bases ending at position i
\* inclusive, the right flank the k bases starting at position i+d.
C2_LeftFlankEndsAtI ==
    pc = "deletion" =>
        /\ Len(delseq) = 2 * k - 1
        /\ \A j \in 1..(k - 1) : delseq[j] = At(i - (k - 1) + j)
        /\ \A j \in 1..k : delseq[k - 1 + j] = At(i + delsize + j - 1)

\* C2 amended: the left flank is the k-1 bases at positions i-k+1 .. i-1 (it
\* ends just before position i), the right flank the k bases starting at
\* position i+d.
C2_FlanksAroundI ==
    pc = "deletion" =>
        /\ Len(delseq) = 2 * k - 1
        /\ \A j \in 1..(k - 1) : delseq[j] = At(i - k + j)
        /\ \A j \in 1..k : delseq[k - 1 + j] = At(i + delsize + j - 1)

C2_Witness ==
    /\ pc = "deletion" /\ k = 2
    /\ At(i - 1) # At(i)
    /\ delseq[1] = At(i - 1)

\* The sequence with the d bases at positions i .. i+d-1 removed.
Shortened == SubSeq(sequence, 1, i) \o SubSeq(sequence, i + delsize + 1, Len(sequence))

\* C3: the junction is the 2k-1 characters starting at position i-k+1 of the
\* sequence from which exactly the d bases i .. i+d-1 were removed.
C3_JunctionOfShortened ==
    pc = "deletion" =>
        /\ Len(Shortened) = Len(sequence) - delsize
        /\ delseq = SubSeq(Shortened, (i - k + 1) + 1, (i - k + 1) + (2 * k - 1))

C3_Witness ==
    /\ pc = "deletion" /\ k = 2
    /\ At(i) # At(i + delsize)
    /\ At(i + delsize) # At(i + delsize + 1)

\* The deletion points k-1 .. Len-k-d in increasing order.
Window == [j \in 1..(IF LastPoint >= k - 1 THEN LastPoint - (k - 1) + 1 ELSE 0) |-> k - 2 + j]

\* C4: a call the limit does not stop consults the skip policy exactly once
\* at each point k-1 .. Len-k-d, in increasing order, and nowhere else; with
\* limit = 0 the limit never stops a call.
C4_WindowConsulted ==
    /\ (Returned /\ ~stopped) => consulted = Window
    /\ limit = 0 => ~stopped
    /\ \A j \in 1..Len(consulted) : consulted[j] = Window[j]

C4_Witness ==
    /\ Returned /\ ~stopped /\ Len(consulted) = 3
    /\ delcount > limit

\* C5: on a sequence shorter than 2k+d-1 process returns 0, does not consult
\* the skip policy, signals no error and leaves the histograms, the deletion
\* counter and the logger's counter as they were.
C5_ShortSequence ==
    (ncalls > 0 /\ Short) =>
        /\ pc \in {"for", "return", "idle"}
        /\ Snapshot = pre
        /\ consulted = << >>
        /\ pc = "idle" => ret = 0

C5_Witness ==
    /\ Returned /\ Short /\ ret = 0
    /\ Len(sequence) = 2 * k + delsize - 2
    /\ pre.delcount > 0 /\ pre.counter > 0

\* C6: the deletion counter starts at 0, equals the number of positions at
\* which the skip policy did not signal skip (once the increment that follows
\* the answer has run), is incremented by one there and changed nowhere else.
C6_CountsRetained ==
    /\ [](delcount = nretained - (IF pc = "delcount" THEN 1 ELSE 0))
    /\ [][/\ delcount' >= delcount
          /\ delcount' # delcount => (pc = "delcount" /\ delcount' = delcount + 1)]_vars

C6_Witness ==
    /\ Returned /\ ncalls = 2
    /\ delcount = 3 /\ pre.delcount = 2
    /\ Len(consulted) = 3

\* C7 as stated: whenever the limit does not cut the call short the returned
\* total is get_mut_count() * k, on every call of a reused Mutator too.
C7_TotalIsCountTimesK ==
    (Returned /\ ~stopped) => ret = delcount * k

\* C7 amended: the returned total is get_mut_count() * k for every call that
\* the limit does not cut short and that began with the counter at 0.
C7_TotalOfFirstEvents ==
    (Returned /\ ~stopped /\ pre.delcount = 0) => ret = delcount * k

C7_Witness ==
    /\ Returned /\ ~stopped /\ pre.delcount = 0
    /\ k = 2 /\ ret = 2 /\ ncalls = 2

\* C8: with a positive limit the deletion counter never exceeds limit + 1.
C8_AtMostLimitPlusOne ==
    limit > 0 => delcount <= limit + 1

C8_Witness ==
    /\ limit > 0 /\ delcount = limit + 1
    /\ Returned /\ stopped /\ ncalls = 2

\* C9: with a positive limit get_mut_count() <= limit after every call.
C9_AtMostLimit ==
    (limit > 0 /\ Returned) => delcount <= limit

\* C10 as stated: the histograms after A then B on one Mutator are the
\* elementwise sums of the histograms of the runs on A alone and on B alone.
C10_Additive ==
    phase = "done" =>
        /\ resAB.abund_hist = resA.abund_hist (+) resB.abund_hist
        /\ resAB.unique_hist = resA.unique_hist (+) resB.unique_hist

\* C10 amended: the same, when no limit is set or the limit test never
\* stopped the Mutator that processed both sequences.
C10_AdditiveUnlimited ==
    (phase = "done" /\ (limit = 0 \/ (~resA.stopped /\ ~resAB.stopped))) =>
        /\ resAB.abund_hist = resA.abund_hist (+) resB.abund_hist
        /\ resAB.unique_hist = resA.unique_hist (+) resB.unique_hist

C10_Witness ==
    /\ phase = "done" /\ limit = 0
    /\ resA.unique_hist # EmptyBag /\ resB.unique_hist # EmptyBag
    /\ resAB.abund_hist # resA.abund_hist
    /\ \E p \in DOMAIN tape : tape[p]

\* Sum over the buckets u of hist of u times the count of bucket u.
RECURSIVE WeightedTotal(_, _)
WeightedTotal(hist, buckets) ==
    IF buckets = {} THEN 0
    ELSE LET u == CHOOSE b \in buckets : TRUE
         IN  u * CopiesIn(u, hist) + WeightedTotal(hist, buckets \ {u})

\* C11: starting from empty histograms, the per-event unique tallies recorded
\* in unique_hist add up to the number of zero-abundance k-mers counted in
\* abund_hist: sum over u of u * unique_hist[u] = abund_hist[0].
C11_UniqueTalliesSum ==
    WeightedTotal(unique_hist, BagToSet(unique_hist)) = CopiesIn(0, abund_hist)

C11_Witness ==
    /\ Returned /\ k = 2 /\ ncalls = 2
    /\ CopiesIn(1, unique_hist) >= 1 /\ CopiesIn(2, unique_hist) >= 1
    /\ CopiesIn(0, abund_hist) = 3
    /\ CopiesIn(1, abund_hist) >= 1

\* C12: Deletion::print writes exactly three lines and changes no state: '>'
\* and the junction; k spaces and '|'; the k abundances in order separated
\* by single spaces, with no leading or trailing space.
C12_ThreeLineDiagram ==
    /\ [](stream # NoBlock =>
            LET lines == stream.diagram
            IN  /\ Len(lines) = 3
                /\ lines[1] = <<">">> \o delseq
                /\ Len(lines[2]) = k + 1
                /\ \A j \in 1..k : lines[2][j] = " "
                /\ lines[2][k + 1] = "|"
                /\ Len(lines[3]) = 2 * k - 1
                /\ \A j \in 1..k : lines[3][2 * j - 1] = ToString(del.abunds[j])
                /\ \A j \in 1..(k - 1) : lines[3][2 * j] = " ")
    /\ [][pc = "report" =>
            UNCHANGED <<cfgVars, mutVars, counter, frameVars, ret>>]_vars

C12_Witness ==
    /\ pc = "tally" /\ stream # NoBlock /\ k = 2
    /\ del.abunds = <<1, 0>>
    /\ stream.diagram[3] = <<"1", " ", "0">>

\* C13: the value returned by every call is k times the number of events
\* retained in that call, calls ended by the limit and calls on a reused
\* Mutator included.
C13_TotalOfThisCall ==
    Returned => ret = k * (delcount - pre.delcount)

C13_Witness ==
    /\ Returned /\ stopped /\ ncalls = 2
    /\ pre.delcount > 0 /\ ret > 0

\* Positions of process at which no event is in progress.
BetweenEvents == pc \in {"for", "limit", "return", "idle"}

\* C14: once the deletion counter exceeds a positive limit the Mutator has
\* stopped: the loop exits without consulting the skip policy, and every
\* later call returns 0, signals no error and leaves the counter, both
\* histograms and the logger's counter as they were.
C14_StoppedIsAbsorbing ==
    /\ []((limit > 0 /\ delcount > limit) => pc \notin {"skip", "delcount"} /\ ~Failed)
    /\ []((limit > 0 /\ ncalls > 0 /\ pre.delcount > limit) =>
            /\ BetweenEvents
            /\ Snapshot = pre
            /\ consulted = << >>
            /\ pc = "idle" => ret = 0)
    /\ [][(limit > 0 /\ delcount > limit /\ BetweenEvents) =>
            /\ UNCHANGED <<mutVars, counter, stream>>
            /\ BetweenEvents']_vars

C14_Witness ==
    /\ Returned /\ ncalls = 2 /\ limit > 0
    /\ pre.delcount > limit /\ stopped
    /\ LastPoint > k - 1
    /\ ret = 0

\* C15: a position at which the skip policy signals skip leaves the deletion
\* counter, both histograms, the logger's counter and the running total
\* unchanged, writes no report, and the loop goes on with position i+1.
C15_SkipDoesNothing ==
    [][(pc = "skip" /\ nretained' = nretained) =>
          /\ UNCHANGED <<mutVars, counter, kmercount, sequence, delseq, del>>
          /\ stream' = NoBlock
          /\ i' = i + 1
          /\ pc' = "for"]_vars

C15_Witness ==
    /\ pc = "for" /\ Len(consulted) > 0
    /\ consulted[Len(consulted)] = i - 1
    /\ kmercount = k * (Len(consulted) - 1) /\ kmercount > 0

\* Events of the current call whose step named by the set has not run yet:
\* 1 while the event in progress is at one of the positions, else 0.
Pending(positions) == IF pc \in positions THEN 1 ELSE 0

\* C16: a retained event runs counter increment, junction build, event
\* construction, logger advance, optional report and tally in this order;
\* the logger advances exactly once per retained event and never for a
\* skipped position; a report shows the histograms with the contribution of
\* the event whose diagram it prints.
C16_EventOrder ==
    /\ [](LET events == delcount - pre.delcount
          IN  /\ (pc \in {"deletion", "logger", "report", "tally"}) =>
                    (Len(delseq) = 2 * k - 1 /\ events >= 1)
              /\ BagCardinality(unique_hist) - BagCardinality(pre.unique_hist)
                    = events - Pending({"junction", "deletion"})
              /\ counter - pre.counter
                    = events - Pending({"junction", "deletion", "logger"})
              /\ kmercount = IF pc = "idle" THEN 0
                             ELSE k * (events - Pending({"junction", "deletion", "logger",
                                                         "report", "tally"}))
              /\ stream # NoBlock => (pc = "tally" /\ doprint)
              /\ (pc = "tally" /\ doprint) =>
                    /\ stream # NoBlock
                    /\ stream.diagram[1] = <<">">> \o del.sequence
                    /\ del.sequence = delseq
                    /\ stream.abund_hist = abund_hist
                    /\ stream.unique_hist = unique_hist
                    /\ BagCardinality(stream.unique_hist) = delcount
                    /\ BagCardinality(stream.abund_hist) = k * delcount)
    /\ [][counter' # counter =>
            (pc = "logger" /\ counter' = counter + 1 /\ nretained' = nretained)]_vars

C16_Witness ==
    /\ pc = "tally" /\ doprint /\ stream # NoBlock
    /\ delcount = 3 /\ pre.delcount = 1
    /\ Len(consulted) = 3
    /\ BagCardinality(stream.unique_hist) = 3

\* C17: with a table whose get_kmers returns length-k+1 k-mers, every
\* Deletion extracts exactly k k-mers (the assertion never fails) and its
\* abundance vector has length k, entry j being the looked-up abundance of
\* the j-th k-mer of the junction from the left.
C17_AbundanceVector ==
    /\ pc # "assert_kmers"
    /\ pc = "deletion" => Len(delseq) - k + 1 = k
    /\ pc \in {"logger", "report", "tally"} =>
          /\ del.sequence = delseq
          /\ Len(del.abunds) = k
          /\ \A j \in 1..k : del.abunds[j] = GetCount(SubSeq(delseq, j, j + k - 1))

C17_Witness ==
    /\ pc = "logger" /\ k = 2
    /\ del.abunds[1] # del.abunds[2]
    /\ GetCount(SubSeq(delseq, 1, 2)) = 1

\* C18: starting from empty histograms, between events abund_hist holds
\* k * delcount counts and unique_hist holds delcount counts; an event adds
\* exactly k counts to abund_hist and one count to unique_hist at a bucket in
\* 0..k, and only the construction of a Deletion changes a histogram.
C18_HistogramTotals ==
    /\ [](/\ BagCardinality(abund_hist) = k * (delcount - Pending({"junction", "deletion"}))
          /\ BagCardinality(unique_hist) = delcount - Pending({"junction", "deletion"})
          /\ BagToSet(unique_hist) \subseteq 0..k)
    /\ [][(abund_hist' # abund_hist \/ unique_hist' # unique_hist) =>
            /\ pc = "deletion"
            /\ BagCardinality(abund_hist') = BagCardinality(abund_hist) + k
            /\ \A v \in BagToSet(abund_hist) : CopiesIn(v, abund_hist') >= CopiesIn(v, abund_hist)
            /\ \E u \in 0..k : unique_hist' = unique_hist (+) SetToBag({u})]_vars

C18_Witness ==
    /\ Returned /\ ncalls = 2 /\ k = 2
    /\ delcount = 2 /\ pre.delcount = 1
    /\ BagCardinality(abund_hist) = 4
    /\ Cardinality(BagToSet(unique_hist)) = 2

\* ------------------------------------------------------------- termination
\* process is straight-line sequential code: a call that has started keeps
\* taking its next step.  Nothing obliges a caller to call again.
Run == Loop \/ Sample \/ Event \/ Log \/ Emit \/ Advance \/ Finish

\* Whether a call returns does not depend on what the table holds: the runs
\* are taken with the table that has consumed no read.
InitLive == Init /\ counttable = << >>

SpecLive == InitLive /\ [][Next]_vars /\ WF_vars(Run)

\* Number of admissible deletion points: max(0, Len - 2k - d + 2).
WindowSize ==
    IF Len(sequence) - 2 * k - delsize + 2 > 0 THEN Len(sequence) - 2 * k - delsize + 2 ELSE 0

\* Loop iterations the current call has begun.
Iterations ==
    (i - (k - 1)) + (IF \/ pc \in {"limit", "skip", "delcount", "junction", "deletion",
                                    "logger", "report", "tally"}
                        \/ (pc = "return" /\ stopped)
                     THEN 1 ELSE 0)

\* C19: every call of process terminates: i grows by one on every iteration,
\* skipped or not, the call begins at most max(0, Len - 2k - d + 2)
\* iterations, and a call that has started returns.
C19_Terminates ==
    /\ [](pc # "idle" => Iterations <= WindowSize)
    /\ [][(pc \in {"skip", "tally"} /\ pc' = "for") => i' = i + 1]_vars
    /\ [][(pc = "for" /\ pc' = "limit") => Iterations' = Iterations + 1]_vars
    /\ (pc # "idle") ~> (pc = "idle")

C19_Witness ==
    /\ Returned /\ ncalls = 2
    /\ Len(consulted) = 3 /\ delcount = pre.delcount
    /\ ret = 0 /\ ~stopped

TypeOK ==
    /\ pc \in {"idle", "for", "limit", "skip", "delcount", "junction", "deletion",
               "logger", "report", "tally", "return",
               "out_of_range", "assert_delseq", "assert_kmers"}
    /\ delcount \in Nat /\ counter \in Nat /\ kmercount \in Nat /\ i \in Nat
====
